---- MODULE Spec2Model ----
(***************************************************************************)
(* Model of the armv7 crate's paging core (src/src/structures/paging.rs    *)
(* and the address types of src/src/lib.rs).                               *)
(*                                                                         *)
(* A u32 is the pair <<hi, lo>> of its two 16-bit halves, so 0x000b_fdfd   *)
(* is W(\h000b, \hfdfd): TLC's integers stop at 2^31 - 1, and the          *)
(* descriptors and addresses of the crate use all 32 bits.                 *)
(***************************************************************************)
EXTENDS Naturals, FiniteSets, Sequences, TLC

VARIABLES
    attributes,   \* the MemoryAttributes value the caller holds
    desc,         \* the last descriptor constructor call and what it returned
    decoded,      \* the last from_*_descriptor call on desc's value
    xlat,         \* the last get_phys_addr call and what it returned
    om,           \* an OffsetMapping and the last call made on it
    dev,          \* a DeviceVmemMapper, the translation table and the last call
    cpu,          \* TTBR0 and the progress of set_as_ttbr0
    cs,           \* CPSR and the restore tokens of the critical sections held
    arith,        \* the last address addition or subtraction and what it gave
    pt,           \* a translation table and the last PageTable::new call on it
    va,           \* the last VirtualAddress::from_indices call and its result
    vt            \* the vector table and the last call on it

vars == <<attributes, desc, decoded, xlat, om, dev, cpu, cs, arith, pt, va, vt>>

---------------------------------------------------------------------------
(* u32 values and the operators the source applies to them                 *)

W(hi, lo) == <<hi, lo>>

W0 == W(0, 0)

\* a & b on 16-bit halves, bit by bit
RECURSIVE And16(_, _)
And16(a, b) ==
    IF a = 0 \/ b = 0 THEN 0
    ELSE (a % 2) * (b % 2) + 2 * And16(a \div 2, b \div 2)

\* a & b
WAnd(a, b) == W(And16(a[1], b[1]), And16(a[2], b[2]))

\* a | b
WOr(a, b) ==
    W(a[1] + b[1] - And16(a[1], b[1]), a[2] + b[2] - And16(a[2], b[2]))

\* !a
WNot(a) == W(65535 - a[1], 65535 - a[2])

\* a << k for 0 <= k < 32: the bits shifted past bit 31 are dropped
WShl(a, k) ==
    IF k >= 16
    THEN W((a[2] * 2^(k - 16)) % 65536, 0)
    ELSE W((a[1] * 2^k + (a[2] * 2^k) \div 65536) % 65536, (a[2] * 2^k) % 65536)

\* a >> k for 0 <= k < 32 (logical: u32)
WShr(a, k) ==
    IF k >= 16
    THEN W(0, a[1] \div 2^(k - 16))
    ELSE W(a[1] \div 2^k, (a[2] \div 2^k) + (a[1] % 2^k) * 2^(16 - k))

\* a < b and a <= b
WLess(a, b) == a[1] < b[1] \/ (a[1] = b[1] /\ a[2] < b[2])

WLeq(a, b) == ~WLess(b, a)

\* (a + b) mod 2^32 and (a - b) mod 2^32
WAddWrap(a, b) ==
    W((a[1] + b[1] + (a[2] + b[2]) \div 65536) % 65536, (a[2] + b[2]) % 65536)

WSubWrap(a, b) ==
    LET borrow == IF a[2] < b[2] THEN 1 ELSE 0
    IN  W((a[1] + 65536 - b[1] - borrow) % 65536, (a[2] + 65536 - b[2]) % 65536)

\* whether a + b does not fit in 32 bits
WAddOverflows(a, b) == a[1] + b[1] + (a[2] + b[2]) \div 65536 >= 65536

\* what a call gives: a value, or a panic that unwinds it
Returned(v) == [tag |-> "Return", val |-> v]
Panic == [tag |-> "Panic"]

\* a + b and a - b on u32 as the build compiles them: with overflow checks
\* (debug profile) an overflow panics, without them (release profile) it wraps
u32_add(a, b, overflow_checks) ==
    IF WAddOverflows(a, b) /\ overflow_checks THEN Panic
    ELSE Returned(WAddWrap(a, b))

u32_sub(a, b, overflow_checks) ==
    IF WLess(a, b) /\ overflow_checks THEN Panic
    ELSE Returned(WSubWrap(a, b))

\* Result<T, PageError> and Option<T>
Ok(v) == [tag |-> "Ok", val |-> v]
Err(e) == [tag |-> "Err", err |-> e]
Some(v) == [tag |-> "Some", val |-> v]
None == [tag |-> "None"]

---------------------------------------------------------------------------
(* Alignable (paging.rs 213-239)                                           *)

is_aligned(addr, mask) == WAnd(addr, mask) = W0

check_align(addr, mask) ==
    IF is_aligned(addr, mask) THEN Ok("unit") ELSE Err("AlignError")

---------------------------------------------------------------------------
(* TranslationTableType, PageTableType                                     *)

TranslationTableTypes == {"Invalid", "Page", "Section", "Supersection"}

PageTableTypes == {"Invalid", "SmallPage", "LargePage"}

\* mutant: the Section mask one hex digit short
TranslationTableType_align_short(tabletype) ==
    CASE tabletype = "Invalid" -> W0
      [] tabletype = "Page" -> W(0, \h03ff)
      [] tabletype = "Section" -> W(0, \hffff)
      [] tabletype = "Supersection" -> W(\h000f, \hffff)

TranslationTableType_align(tabletype) ==
    CASE tabletype = "Invalid" -> W0
      [] tabletype = "Page" -> W(0, \h03ff)
      [] tabletype = "Section" -> W(\h000f, \hffff)
      [] tabletype = "Supersection" -> W(\h000f, \hffff)

PageTableType_align(pagetype) ==
    CASE pagetype = "Invalid" -> W0
      [] pagetype = "SmallPage" -> W(0, \h0fff)
      [] pagetype = "LargePage" -> W(0, \hffff)

---------------------------------------------------------------------------
(* Descriptor introspection                                                *)

TranslationTableDescriptor_get_type(d) ==
    LET low == And16(d[2], 3) IN
    IF low = 0 THEN "Invalid"
    ELSE IF low = 1 THEN "Page"
    ELSE IF WAnd(d, W(\h0004, 0)) = W0 THEN "Section"
    ELSE "Supersection"

PageTableDescriptor_get_type(d) ==
    LET low == And16(d[2], 3) IN
    IF low = 0 THEN "Invalid"
    ELSE IF low = 1 THEN "LargePage"
    ELSE "SmallPage"

PageTableDescriptor_get_addr(d) ==
    LET page_type == PageTableDescriptor_get_type(d) IN
    IF page_type = "Invalid" THEN Err("InvalidMemory")
    ELSE Ok(WAnd(d, WNot(PageTableType_align(page_type))))

---------------------------------------------------------------------------
(* MemoryAttributes codec                                                  *)

from_table_descriptor(d) ==
    LET table_type == TranslationTableDescriptor_get_type(d) IN
    CASE table_type = "Invalid" -> None
      [] table_type = "Page" ->
            Some(WOr(WOr(WAnd(d, W(0, \h01e0)),
                         WAnd(WShr(d, 2), W(0, 1))),
                     WShl(WAnd(d, W(0, \h0008)), 16)))
      [] table_type = "Section" -> Some(WAnd(d, W(\h000b, \hfdfd)))
      [] table_type = "Supersection" -> Some(WAnd(d, W(\h000d, \hfa1d)))

from_page_descriptor(d) ==
    LET page_type == PageTableDescriptor_get_type(d) IN
    CASE page_type = "Invalid" -> W0
      [] page_type = "LargePage" ->
            WOr(WOr(WOr(WAnd(d, W(0, \h700c)),
                        WShl(WAnd(d, W(0, \h0030)), 10 - 4)),
                    WShl(WAnd(d, W(0, \h0e00)), 15 - 9)),
                WShr(WAnd(d, W(0, \h8000)), 15 - 4))
      [] page_type = "SmallPage" ->
            WOr(WOr(WAnd(d, W(0, 12)),
                    WShl(WAnd(d, W(0, 1)), 4)),
                WShl(WAnd(d, W(0, \h0ff0)), 10 - 4))

\* mutant: the large page's XN moved one bit too far, into the address field
to_page_descriptor_xn16(self, pagetype) ==
    CASE pagetype = "Invalid" -> W0
      [] pagetype = "SmallPage" ->
            WOr(WOr(WOr(W(0, 2), WAnd(self, W(0, 12))),
                    WShr(WAnd(self, W(0, \h0010)), 4)),
                WShr(WAnd(self, W(\h0003, \hfc00)), 10 - 4))
      [] pagetype = "LargePage" ->
            WOr(WOr(WOr(WOr(W(0, 1), WAnd(self, W(0, 12))),
                        WShr(WAnd(self, W(0, \h0c00)), 10 - 4)),
                    WShr(WAnd(self, W(\h0003, \h8000)), 15 - 9)),
                WShl(WAnd(self, W(0, \h0010)), 16 - 4))

\* mutant: the small page's XN is not copied
to_page_descriptor_noxn(self, pagetype) ==
    CASE pagetype = "Invalid" -> W0
      [] pagetype = "SmallPage" ->
            WOr(WOr(W(0, 2), WAnd(self, W(0, 12))),
                WShr(WAnd(self, W(\h0003, \hfc00)), 10 - 4))
      [] pagetype = "LargePage" ->
            WOr(WOr(WOr(WOr(W(0, 1), WAnd(self, W(0, 12))),
                        WShr(WAnd(self, W(0, \h0c00)), 10 - 4)),
                    WShr(WAnd(self, W(\h0003, \h8000)), 15 - 9)),
                WShl(WAnd(self, W(0, \h0010)), 15 - 4))

to_page_descriptor(self, pagetype) ==
    CASE pagetype = "Invalid" -> W0
      [] pagetype = "SmallPage" ->
            WOr(WOr(WOr(W(0, 2), WAnd(self, W(0, 12))),
                    WShr(WAnd(self, W(0, \h0010)), 4)),
                WShr(WAnd(self, W(\h0003, \hfc00)), 10 - 4))
      [] pagetype = "LargePage" ->
            WOr(WOr(WOr(WOr(W(0, 1), WAnd(self, W(0, 12))),
                        WShr(WAnd(self, W(0, \h0c00)), 10 - 4)),
                    WShr(WAnd(self, W(\h0003, \h8000)), 15 - 9)),
                WShl(WAnd(self, W(0, \h0010)), 15 - 4))

to_table_descriptor(self, tabletype) ==
    CASE tabletype = "Invalid" -> W0
      [] tabletype = "Page" ->
            WOr(WOr(W(0, 1), WAnd(self, W(0, \h01e0))),
                WShl(WAnd(self, W(0, 1)), 2))
      [] tabletype = "Section" -> WOr(self, W(0, 2))
      [] tabletype = "Supersection" ->
            WOr(W(\h0004, \h0002), WAnd(self, W(\h000f, \hfc1f)))

---------------------------------------------------------------------------
(* Descriptor construction                                                 *)

\* mutant: no early return for Invalid
TranslationTableDescriptor_new_noinvalid(tabletype, addr, attrs) ==
    IF check_align(addr, TranslationTableType_align(tabletype)).tag = "Err"
    THEN Err("AlignError")
    ELSE Ok(WOr(to_table_descriptor(attrs, tabletype), addr))

TranslationTableDescriptor_new(tabletype, addr, attrs) ==
    IF tabletype = "Invalid" THEN Ok(W0)
    ELSE IF check_align(addr, TranslationTableType_align(tabletype)).tag = "Err"
    THEN Err("AlignError")
    ELSE Ok(WOr(to_table_descriptor(attrs, tabletype), addr))

PageTableDescriptor_new(pagetype, addr, attrs) ==
    IF pagetype = "Invalid" THEN Ok(W0)
    ELSE IF check_align(addr, PageTableType_align(pagetype)).tag = "Err"
    THEN Err("AlignError")
    ELSE Ok(WOr(to_page_descriptor(attrs, pagetype), addr))

---------------------------------------------------------------------------
(* Hardware-assisted address translation.  get_phys_frame writes the       *)
(* virtual address to the translation request register and reads the       *)
(* result register back; readback is the value that read returns, which    *)
(* the hardware decides.                                                   *)

get_phys_addr(virt_addr, readback) ==
    LET frame_offset == WAnd(virt_addr, W(0, \h0fff))
        output == WAnd(readback, WNot(W(0, \h0fff)))
    IN  IF WAnd(output, W(0, 1)) = W0
        THEN Ok(WOr(output, frame_offset))
        ELSE Err("TranslationError")

---------------------------------------------------------------------------
(* OffsetMapping: m is [virt_start, phys_start, size]                      *)

OffsetMapping_new(virt_start, phys_start, size) ==
    [virt_start |-> virt_start, phys_start |-> phys_start, size |-> size]

virt_addr_in_range(m, virt_addr, overflow_checks) ==
    IF WLess(virt_addr, m.virt_start) THEN Returned(FALSE)
    ELSE LET end == u32_add(m.virt_start, m.size, overflow_checks)
         IN  IF end.tag = "Panic" THEN Panic
             ELSE IF WLess(end.val, virt_addr) THEN Returned(FALSE)
             ELSE Returned(TRUE)

phys_addr_in_range(m, phys_addr, overflow_checks) ==
    IF WLess(phys_addr, m.phys_start) THEN Returned(FALSE)
    ELSE LET end == u32_add(m.phys_start, m.size, overflow_checks)
         IN  IF end.tag = "Panic" THEN Panic
             ELSE IF WLess(end.val, phys_addr) THEN Returned(FALSE)
             ELSE Returned(TRUE)

convert_virt_addr(m, vaddr, overflow_checks) ==
    LET inside == virt_addr_in_range(m, vaddr, overflow_checks)
    IN  IF inside.tag = "Panic" THEN Panic
        ELSE IF ~inside.val THEN Returned(Err("NotInRange"))
        ELSE LET diff == u32_sub(vaddr, m.virt_start, overflow_checks)
             IN  IF diff.tag = "Panic" THEN Panic
                 ELSE LET sum == u32_add(m.phys_start, diff.val, overflow_checks)
                      IN  IF sum.tag = "Panic" THEN Panic
                          ELSE Returned(Ok(sum.val))

convert_phys_addr(m, paddr, overflow_checks) ==
    LET inside == phys_addr_in_range(m, paddr, overflow_checks)
    IN  IF inside.tag = "Panic" THEN Panic
        ELSE IF ~inside.val THEN Returned(Err("NotInRange"))
        ELSE LET diff == u32_sub(paddr, m.phys_start, overflow_checks)
             IN  IF diff.tag = "Panic" THEN Panic
                 ELSE LET sum == u32_add(m.virt_start, diff.val, overflow_checks)
                      IN  IF sum.tag = "Panic" THEN Panic
                          ELSE Returned(Ok(sum.val))

---------------------------------------------------------------------------
(* Inputs                                                                  *)

\* how many field values one FieldValue expression adds up (A + B + ...)
MaxFields == 2

\* how many bits of an arbitrary 32-bit attribute word are set
MaxBits == 2

\* register_bitfields! ATTRIBUTES: name, OFFSET, NUMBITS
ATTRIBUTES ==
    { [name |-> "PXN", offset |-> 0, numbits |-> 1],
      [name |-> "B", offset |-> 2, numbits |-> 1],
      [name |-> "C", offset |-> 3, numbits |-> 1],
      [name |-> "XN", offset |-> 4, numbits |-> 1],
      [name |-> "DOMAIN", offset |-> 5, numbits |-> 4],
      [name |-> "AP", offset |-> 10, numbits |-> 2],
      [name |-> "TEX", offset |-> 12, numbits |-> 3],
      [name |-> "AP2", offset |-> 15, numbits |-> 1],
      [name |-> "S", offset |-> 16, numbits |-> 1],
      [name |-> "NG", offset |-> 17, numbits |-> 1],
      [name |-> "NS", offset |-> 19, numbits |-> 1] }

\* the mask of a field, at its offset
FieldMask(f) == WShl(W(0, 2^f.numbits - 1), f.offset)

\* the mask of the fields named in names
RECURSIVE FieldsMask(_)
FieldsMask(names) ==
    IF names = {} THEN W0
    ELSE LET n == CHOOSE x \in names : TRUE
             f == CHOOSE x \in ATTRIBUTES : x.name = n
         IN  WOr(FieldMask(f), FieldsMask(names \ {n}))

\* ATTRIBUTES::F.val(v): the value masked to the field and moved to its offset
FieldVal(f, v) == WShl(W(0, v % 2^f.numbits), f.offset)

\* u32::from of a sum of at most n field values (FieldValue + FieldValue ors them)
RECURSIVE FieldValueWords(_)
FieldValueWords(n) ==
    IF n = 0 THEN {W0}
    ELSE LET less == FieldValueWords(n - 1)
         IN  less \cup
             UNION { { WOr(w, FieldVal(f, v)) : v \in 1..(2^f.numbits - 1) } :
                        w \in less, f \in ATTRIBUTES }

\* MemoryAttributes::from(field values) and MemoryAttributes::default()
MemoryAttributes_from == FieldValueWords(MaxFields)

MemoryAttributes_default == W0

\* every 32-bit word with at most n bits set
RECURSIVE WordsOfBits(_)
WordsOfBits(n) ==
    IF n = 0 THEN {W0}
    ELSE LET less == WordsOfBits(n - 1)
         IN  less \cup { WOr(w, WShl(W(0, 1), b)) : w \in less, b \in 0..31 }

\* physical addresses: aligned to 1MB, and with one bit set at each edge of
\* the four alignment masks (0x3ff, 0xfff, 0xffff, 0xf_ffff)
PhysAddrs ==
    { W(\h8020, 0), W(\hfff0, 0), W(\h8020, 1), W(\h8020, \h0200),
      W(\h8020, \h0400), W(\h8020, \h0800), W(\h8020, \h1000),
      W(\h8020, \h8000), W(\h8021, 0), W(\h8028, 0) }

\* virtual addresses handed to get_phys_addr
VirtAddrs ==
    { W0, W(0, \h0abc), W(\h8020, \h0fff), W(\hc000, \h1234),
      W(\hffff, \hf001), W(\h3f20, \h1000) }

\* values the translation result register can hold: a frame, and in the low
\* twelve bits the status bit (bit 0) with fault status or memory attributes
ReadbackValues ==
    { WOr(frame, W(0, low)) :
        frame \in {W0, W(\h3f20, \h1000), W(\h8020, 0), W(\hffff, \hf000)},
        low \in {0, 1, \h000d, \h0180, \h0ffe} }

---------------------------------------------------------------------------
(* State machine.  The caller holds one attributes value; it builds a      *)
(* descriptor from it, decodes the descriptor, and may go on with the      *)
(* decoded attributes.                                                     *)

NoCall == [op |-> "none"]

Init ==
    /\ attributes \in MemoryAttributes_from \cup {MemoryAttributes_default}
    /\ desc = NoCall
    /\ decoded = NoCall
    /\ xlat = NoCall
    /\ om = NoCall
    /\ dev = NoCall
    /\ cpu = NoCall
    /\ cs = NoCall
    /\ arith = NoCall
    /\ pt = NoCall
    /\ va = NoCall
    /\ vt = NoCall

\* the same, starting from an arbitrary 32-bit attributes word
InitRaw ==
    /\ attributes \in WordsOfBits(MaxBits)
    /\ desc = NoCall
    /\ decoded = NoCall
    /\ xlat = NoCall
    /\ om = NoCall
    /\ dev = NoCall
    /\ cpu = NoCall
    /\ cs = NoCall
    /\ arith = NoCall
    /\ pt = NoCall
    /\ va = NoCall
    /\ vt = NoCall

InitTranslate ==
    /\ attributes = MemoryAttributes_default
    /\ desc = NoCall
    /\ decoded = NoCall
    /\ xlat = NoCall
    /\ om = NoCall
    /\ dev = NoCall
    /\ cpu = NoCall
    /\ cs = NoCall
    /\ arith = NoCall
    /\ pt = NoCall
    /\ va = NoCall
    /\ vt = NoCall

TableDescriptorNew(tabletype, addr) ==
    /\ desc.op = "none"
    /\ desc' = [op |-> "TranslationTableDescriptor::new",
                type |-> tabletype, addr |-> addr, attrs |-> attributes,
                res |-> TranslationTableDescriptor_new(tabletype, addr, attributes)]
    /\ UNCHANGED <<attributes, decoded, xlat, om, dev, cpu, cs, arith, pt, va, vt>>

PageDescriptorNew(pagetype, addr) ==
    /\ desc.op = "none"
    /\ desc' = [op |-> "PageTableDescriptor::new",
                type |-> pagetype, addr |-> addr, attrs |-> attributes,
                res |-> PageTableDescriptor_new(pagetype, addr, attributes)]
    /\ UNCHANGED <<attributes, decoded, xlat, om, dev, cpu, cs, arith, pt, va, vt>>

FromTableDescriptor ==
    /\ desc.op = "TranslationTableDescriptor::new"
    /\ desc.res.tag = "Ok"
    /\ decoded.op = "none"
    /\ decoded' = [op |-> "from_table_descriptor",
                   res |-> from_table_descriptor(desc.res.val)]
    /\ UNCHANGED <<attributes, desc, xlat, om, dev, cpu, cs, arith, pt, va, vt>>

FromPageDescriptor ==
    /\ desc.op = "PageTableDescriptor::new"
    /\ desc.res.tag = "Ok"
    /\ decoded.op = "none"
    /\ decoded' = [op |-> "from_page_descriptor",
                   res |-> from_page_descriptor(desc.res.val)]
    /\ UNCHANGED <<attributes, desc, xlat, om, dev, cpu, cs, arith, pt, va, vt>>

\* the caller goes on with the attributes it decoded
KeepDecoded ==
    /\ \/ /\ decoded.op = "from_table_descriptor"
          /\ decoded.res.tag = "Some"
          /\ attributes' = decoded.res.val
       \/ /\ decoded.op = "from_page_descriptor"
          /\ attributes' = decoded.res
    /\ desc' = NoCall
    /\ decoded' = NoCall
    /\ UNCHANGED <<xlat, om, dev, cpu, cs, arith, pt, va, vt>>

GetPhysAddr(virt_addr, readback) ==
    /\ xlat' = [op |-> "get_phys_addr", virt |-> virt_addr,
                readback |-> readback,
                res |-> get_phys_addr(virt_addr, readback)]
    /\ UNCHANGED <<attributes, desc, decoded, om, dev, cpu, cs, arith, pt, va, vt>>

Next ==
    \/ \E t \in TranslationTableTypes, a \in PhysAddrs : TableDescriptorNew(t, a)
    \/ \E t \in PageTableTypes, a \in PhysAddrs : PageDescriptorNew(t, a)
    \/ FromTableDescriptor
    \/ FromPageDescriptor
    \/ KeepDecoded

NextTranslate ==
    \E v \in VirtAddrs, r \in ReadbackValues : GetPhysAddr(v, r)

\* descriptors built from attributes obtained through the public API
Spec == Init /\ [][Next]_vars

\* descriptors built from any 32-bit attributes word
SpecRaw == InitRaw /\ [][Next]_vars

\* address translation
SpecTranslate == InitTranslate /\ [][NextTranslate]_vars

---------------------------------------------------------------------------
(* DeviceVmemMapper: a mapper is [base_address, device_base_addresses];    *)
(* a translation table is the function from the indices written so far to  *)
(* their descriptors, every other entry being new_empty().                 *)

TRANSLATION_TABLE_SIZE == 4096

\* for index in 0..15
SectionsPerSlot == 15

TranslationTableDescriptor_new_empty == W0

TranslationTableMemory_new == << >>

\* table()[i]: the array has TRANSLATION_TABLE_SIZE entries and indexing is
\* bounds-checked in every build
table_entry(table, i) ==
    IF i >= TRANSLATION_TABLE_SIZE THEN Panic
    ELSE IF i \in DOMAIN table THEN table[i]
    ELSE TranslationTableDescriptor_new_empty

base_table_index(a) == WShr(a, 20)[2]

translation_table_index(a) == base_table_index(a)

FieldNamed(name) == CHOOSE f \in ATTRIBUTES : f.name = name

\* mutant: the base only has to be aligned to 1MB
DeviceVmemMapper_new_1mb(base_address, device_base_addresses) ==
    IF check_align(base_address, W(\h000f, \hffff)).tag = "Err"
    THEN Err("AlignError")
    ELSE Ok([base_address |-> base_address,
             device_base_addresses |-> device_base_addresses])

DeviceVmemMapper_new(base_address, device_base_addresses) ==
    IF check_align(base_address, W(\h00ff, \hffff)).tag = "Err"
    THEN Err("AlignError")
    ELSE Ok([base_address |-> base_address,
             device_base_addresses |-> device_base_addresses])

\* one pass of the inner loop, `index` being the loop variable: what stops
\* it ("none" when the section is written)
section_step(tt_index, device_base, index, attributes_, overflow_checks) ==
    LET addr == u32_add(device_base, W(index * 16, 0), overflow_checks)
    IN  IF addr.tag = "Panic" THEN [stop |-> "panic"]
        ELSE LET section == TranslationTableDescriptor_new(
                                "Section", addr.val, attributes_)
             IN  IF section.tag = "Err"
                 THEN [stop |-> "err", err |-> section]
                 ELSE IF tt_index + index >= TRANSLATION_TABLE_SIZE
                 THEN [stop |-> "panic"]
                 ELSE [stop |-> "none", section |-> section.val]

\* the loops of do_mapping from list position i on: gives the result, the
\* table and the writes made, in order
RECURSIVE do_mapping_from(_, _, _, _, _, _)
do_mapping_from(list, i, base_addr, table, log, overflow_checks) ==
    IF i > Len(list)
    THEN [res |-> Returned(Ok("unit")), table |-> table, log |-> log]
    ELSE
    LET attributes_ == WOr(FieldVal(FieldNamed("AP"), 1),
                           FieldVal(FieldNamed("XN"), 1))
        tt_index == translation_table_index(base_addr)
        device_base == WShl(W(0, list[i]), 24)
        step(index) == section_step(tt_index, device_base, index, attributes_,
                                    overflow_checks)
        stopped == { index \in 0..(SectionsPerSlot - 1) :
                        step(index).stop # "none" }
        \* the number of sections written before the loop ends or stops
        written == IF stopped = {} THEN SectionsPerSlot
                   ELSE CHOOSE index \in stopped :
                            \A other \in stopped : index <= other
        table_ == [j \in DOMAIN table \cup
                         { tt_index + index : index \in 0..(written - 1) } |->
                      IF j >= tt_index /\ j < tt_index + written
                      THEN step(j - tt_index).section
                      ELSE table[j]]
        log_ == log \o [q \in 1..written |->
                            <<tt_index + q - 1, step(q - 1).section>>]
    IN  IF written < SectionsPerSlot
        THEN [res |-> IF step(written).stop = "err"
                      THEN Returned(step(written).err) ELSE Panic,
              table |-> table_, log |-> log_]
        ELSE LET next == u32_add(base_addr, W(\h0100, 0), overflow_checks)
             IN  IF next.tag = "Panic"
                 THEN [res |-> Panic, table |-> table_, log |-> log_]
                 ELSE do_mapping_from(list, i + 1, next.val, table_, log_,
                                      overflow_checks)

\* mutant: a table whose first entry of the region is taken is mapped one
\* slot further
do_mapping_next_slot(self, base_table, overflow_checks) ==
    do_mapping_from(self.device_base_addresses, 1,
                    IF table_entry(base_table,
                                   translation_table_index(self.base_address))
                           = TranslationTableDescriptor_new_empty
                    THEN self.base_address
                    ELSE WAddWrap(self.base_address, W(\h0100, 0)),
                    base_table, << >>, overflow_checks)

do_mapping(self, base_table, overflow_checks) ==
    do_mapping_from(self.device_base_addresses, 1, self.base_address,
                    base_table, << >>, overflow_checks)

\* iter().position(|&y| y == b): 0-based, None when b does not occur
position(list, b) ==
    IF \E i \in 1..Len(list) : list[i] = b
    THEN Some((CHOOSE i \in 1..Len(list) :
                  list[i] = b /\ \A j \in 1..(i - 1) : list[j] # b) - 1)
    ELSE None

lookup(self, phys_addr, overflow_checks) ==
    LET phys_index == WShr(phys_addr, 24)
        found == position(self.device_base_addresses, phys_index[2] % 256)
    IN  IF found.tag = "None" THEN Returned(None)
        ELSE LET naked_phys_addr == WAnd(phys_addr, W(\h00ff, \hffff))
                 out == u32_add(self.base_address,
                                WShl(W(found.val \div 65536, found.val % 65536), 24),
                                overflow_checks)
             IN  IF out.tag = "Panic" THEN Panic
                 ELSE Returned(Some(WOr(out.val, naked_phys_addr)))

---------------------------------------------------------------------------
(* Offset mapping.  OffsetMapping::new takes any triple; the build profile *)
(* decides what an overflowing sum does.                                   *)

OmStarts == { W0, W(0, \h1000), W(\h8000, 0), W(\hffff, \hf000) }

OmSizes == { W0, W(0, 1), W(0, \h2000), W(\h1000, 0), W(\hffff, \hffff) }

\* addresses asked about: fixed ones, and the edges of the mapping's windows
OmAddrs(m) ==
    { W0, W(0, \h0800), W(\h8000, \h1000), W(\hffff, \hffff) } \cup
    UNION { { start, WAddWrap(start, W(0, \h1800)), WSubWrap(start, W(0, 1)),
              WAddWrap(start, m.size),
              WAddWrap(WAddWrap(start, m.size), W(0, 1)) } :
            start \in {m.virt_start, m.phys_start} }

InitOffset ==
    /\ attributes = MemoryAttributes_default
    /\ desc = NoCall
    /\ decoded = NoCall
    /\ xlat = NoCall
    /\ om = NoCall
    /\ dev = NoCall
    /\ cpu = NoCall
    /\ cs = NoCall
    /\ arith = NoCall
    /\ pt = NoCall
    /\ va = NoCall
    /\ vt = NoCall

OffsetMappingNew(virt_start, phys_start, size, overflow_checks) ==
    /\ om.op = "none"
    /\ om' = [op |-> "new",
              m |-> OffsetMapping_new(virt_start, phys_start, size),
              overflow_checks |-> overflow_checks]
    /\ UNCHANGED <<attributes, desc, decoded, xlat, dev, cpu, cs, arith, pt, va, vt>>

\* a call on the mapping; a panic ends the program
OmCall(op, arg, res, from) ==
    /\ om.op # "none"
    /\ IF om.op = "new" THEN TRUE ELSE om.res.tag # "Panic"
    /\ om' = [op |-> op, m |-> om.m, overflow_checks |-> om.overflow_checks,
              arg |-> arg, res |-> res, from |-> from]
    /\ UNCHANGED <<attributes, desc, decoded, xlat, dev, cpu, cs, arith, pt, va, vt>>

VirtAddrInRange(v) ==
    OmCall("virt_addr_in_range", v,
           virt_addr_in_range(om.m, v, om.overflow_checks), None)

PhysAddrInRange(p) ==
    OmCall("phys_addr_in_range", p,
           phys_addr_in_range(om.m, p, om.overflow_checks), None)

ConvertVirtAddr(v) ==
    OmCall("convert_virt_addr", v,
           convert_virt_addr(om.m, v, om.overflow_checks), None)

ConvertPhysAddr(p) ==
    OmCall("convert_phys_addr", p,
           convert_phys_addr(om.m, p, om.overflow_checks), None)

\* convert_phys_addr on the address convert_virt_addr has just returned
ConvertBack ==
    /\ om.op = "convert_virt_addr"
    /\ om.res.tag = "Return"
    /\ om.res.val.tag = "Ok"
    /\ OmCall("convert_phys_addr", om.res.val.val,
              convert_phys_addr(om.m, om.res.val.val, om.overflow_checks),
              Some(om.arg))

NextOffset ==
    \/ \E vs \in OmStarts, ps \in OmStarts, size \in OmSizes, c \in BOOLEAN :
            OffsetMappingNew(vs, ps, size, c)
    \/ om.op # "none" /\ \E v \in OmAddrs(om.m) : VirtAddrInRange(v)
    \/ om.op # "none" /\ \E p \in OmAddrs(om.m) : PhysAddrInRange(p)
    \/ om.op # "none" /\ \E v \in OmAddrs(om.m) : ConvertVirtAddr(v)
    \/ om.op # "none" /\ \E p \in OmAddrs(om.m) : ConvertPhysAddr(p)
    \/ ConvertBack

SpecOffset == InitOffset /\ [][NextOffset]_vars

---------------------------------------------------------------------------
(* Device mapper.  One mapper is built, installed into a fresh table and   *)
(* queried.                                                                *)

\* longest frame-index list
MaxFrames == 2

DevFrames == { \h3f, \h40, \hff }

RECURSIVE DevListsOf(_)
DevListsOf(n) ==
    IF n = 0 THEN { << >> }
    ELSE LET less == DevListsOf(n - 1)
         IN  less \cup { Append(l, f) : l \in less, f \in DevFrames }

DevLists == DevListsOf(MaxFrames)

DevBases ==
    { W0, W(\h9000, 0), W(\hff00, 0), W(\h9010, 0), W(\h9000, 1) }

\* physical addresses looked up: frames of the lists and one outside them,
\* at the start, inside, in the last megabyte and at the end of the frame
DevPhysAddrs ==
    { WOr(WShl(W(0, f), 24), off) :
        f \in DevFrames \cup { \h41 },
        off \in { W0, W(\h0020, 0), W(\h00f0, 0), W(\h00ff, \hffff) } }

\* contents of the table before the mapping: empty, or with entries before,
\* at the start of, at the end of and behind the first slots
DevTables ==
    { TranslationTableMemory_new,
      (0 :> W(0, \h0c02)) @@ (\h900 :> W(\h1230, \h0c02)) @@
      (\h90f :> W(\h8000, \h0c02)) @@ (\hff0 :> W(\h4560, \h0c02)) @@
      (\hfff :> W(\h8010, \h0c02)) }

InitDevice ==
    /\ attributes = MemoryAttributes_default
    /\ desc = NoCall
    /\ decoded = NoCall
    /\ xlat = NoCall
    /\ om = NoCall
    /\ dev = NoCall
    /\ cpu = NoCall
    /\ cs = NoCall
    /\ arith = NoCall
    /\ pt = NoCall
    /\ va = NoCall
    /\ vt = NoCall

DeviceVmemMapperNew(base_address, device_base_addresses, overflow_checks, base_table) ==
    /\ dev.op = "none"
    /\ dev' = [op |-> "new",
               base |-> base_address,
               list |-> device_base_addresses,
               self |-> DeviceVmemMapper_new(base_address, device_base_addresses),
               overflow_checks |-> overflow_checks,
               table |-> base_table,
               before |-> base_table,
               calls |-> 0,
               prev_res |-> NoCall,
               mapped |-> FALSE,
               log |-> << >>,
               arg |-> W0,
               res |-> DeviceVmemMapper_new(base_address, device_base_addresses)]
    /\ UNCHANGED <<attributes, desc, decoded, xlat, om, cpu, cs, arith, pt, va, vt>>

\* a mapper exists and the program has not panicked
DevAlive ==
    /\ dev.op # "none"
    /\ dev.self.tag = "Ok"
    /\ dev.res.tag # "Panic"

\* called once or twice in a row, before any lookup
DoMapping ==
    /\ DevAlive
    /\ dev.op \in {"new", "do_mapping"}
    /\ dev.calls < 2
    /\ LET out == do_mapping(dev.self.val, dev.table, dev.overflow_checks)
       IN  dev' = [dev EXCEPT !.op = "do_mapping",
                              !.table = out.table,
                              !.before = dev.table,
                              !.calls = @ + 1,
                              !.prev_res = dev.res,
                              !.log = out.log,
                              !.mapped = (out.res = Returned(Ok("unit"))),
                              !.arg = W0,
                              !.res = out.res]
    /\ UNCHANGED <<attributes, desc, decoded, xlat, om, cpu, cs, arith, pt, va, vt>>

Lookup(phys_addr) ==
    /\ DevAlive
    /\ dev' = [dev EXCEPT !.op = "lookup",
                          !.arg = phys_addr,
                          !.res = lookup(dev.self.val, phys_addr,
                                         dev.overflow_checks)]
    /\ UNCHANGED <<attributes, desc, decoded, xlat, om, cpu, cs, arith, pt, va, vt>>

NextDevice ==
    \/ \E b \in DevBases, l \in DevLists, c \in BOOLEAN, t \in DevTables :
            DeviceVmemMapperNew(b, l, c, t)
    \/ DoMapping
    \/ \E p \in DevPhysAddrs : Lookup(p)

SpecDevice == InitDevice /\ [][NextDevice]_vars

---------------------------------------------------------------------------
(* TranslationTable::set_as_ttbr0, one statement at a time.  cpu.trace is  *)
(* the sequence of statements executed by the current call.                *)

\* mutant: one no-op fewer after the register write
set_as_ttbr0_two_nops ==
    << "get_phys_addr", "TTBR0.set", "nop", "nop", "return" >>

\* the statements of the body after from_ptr, in program order
set_as_ttbr0 ==
    << "get_phys_addr", "TTBR0.set", "nop", "nop", "nop", "return" >>

\* addresses of translation tables (TranslationTableMemory is 16KB aligned)
TablePointers ==
    { W0, W(\h8000, \h4000), W(\hc000, \h8000), W(\hffff, \hc000) }

InitCpu ==
    /\ attributes = MemoryAttributes_default
    /\ desc = NoCall
    /\ decoded = NoCall
    /\ xlat = NoCall
    /\ om = NoCall
    /\ dev = NoCall
    /\ cpu = [op |-> "reset", pc |-> 0, pointer |-> W0, phys_addr |-> NoCall,
              ttbr0 |-> W0, trace |-> << >>, res |-> NoCall]
    /\ cs = NoCall
    /\ arith = NoCall
    /\ pt = NoCall
    /\ va = NoCall
    /\ vt = NoCall

\* the statement the call is at
CpuAt(statement) ==
    /\ cpu.op = "set_as_ttbr0"
    /\ cpu.pc \in 1..Len(set_as_ttbr0)
    /\ set_as_ttbr0[cpu.pc] = statement

\* set_as_ttbr0(&self) is entered; no call is running
SetAsTtbr0Call(pointer) ==
    /\ cpu.pc = 0
    /\ cpu' = [cpu EXCEPT !.op = "set_as_ttbr0", !.pc = 1,
                          !.pointer = pointer, !.phys_addr = NoCall,
                          !.trace = << >>, !.res = NoCall]
    /\ UNCHANGED <<attributes, desc, decoded, xlat, om, dev, cs, arith, pt, va, vt>>

\* let phys_addr = get_phys_addr(virt_addr)?;
ExecGetPhysAddr(readback) ==
    /\ CpuAt("get_phys_addr")
    /\ LET out == get_phys_addr(cpu.pointer, readback)
       IN  cpu' = [cpu EXCEPT !.phys_addr = out,
                              !.trace = Append(@, "get_phys_addr"),
                              !.pc = IF out.tag = "Err" THEN 0 ELSE @ + 1,
                              !.res = IF out.tag = "Err" THEN out ELSE @]
    /\ UNCHANGED <<attributes, desc, decoded, xlat, om, dev, cs, arith, pt, va, vt>>

\* TTBR0.set(phys_addr.as_u32());
ExecTtbr0Set ==
    /\ CpuAt("TTBR0.set")
    /\ cpu' = [cpu EXCEPT !.ttbr0 = cpu.phys_addr.val,
                          !.trace = Append(@, "TTBR0.set"),
                          !.pc = @ + 1]
    /\ UNCHANGED <<attributes, desc, decoded, xlat, om, dev, cs, arith, pt, va, vt>>

\* arm::__nop();
ExecNop ==
    /\ CpuAt("nop")
    /\ cpu' = [cpu EXCEPT !.trace = Append(@, "nop"), !.pc = @ + 1]
    /\ UNCHANGED <<attributes, desc, decoded, xlat, om, dev, cs, arith, pt, va, vt>>

\* Ok(())
ExecReturn ==
    /\ CpuAt("return")
    /\ cpu' = [cpu EXCEPT !.trace = Append(@, "return"), !.pc = 0,
                          !.res = Ok("unit")]
    /\ UNCHANGED <<attributes, desc, decoded, xlat, om, dev, cs, arith, pt, va, vt>>

NextCpu ==
    \/ \E pointer \in TablePointers : SetAsTtbr0Call(pointer)
    \/ \E readback \in ReadbackValues : ExecGetPhysAddr(readback)
    \/ ExecTtbr0Set
    \/ ExecNop
    \/ ExecReturn

SpecCpu == InitCpu /\ [][NextCpu]_vars

---------------------------------------------------------------------------
(* Critical section (critical_section.rs).  cs.cpsr is the status          *)
(* register, cs.tokens the restore states of the sections held, innermost  *)
(* last; sections are released in the reverse order of their acquisition.  *)
(* cs.before is the register before the last call; cs.plain says that no   *)
(* set_current_mode or CPSR.set has run inside the sections now held.      *)

\* deepest nesting of critical sections
MaxNesting == 2

\* the I bit of the CPSR
PSR_IRQ == W(0, \h0080)

\* privileged modes (SVC 0x13, SYS 0x1f) with I (0x80) and F (0x40) in their
\* combinations
CpsrValues ==
    { W(0, \h0013), W(0, \h0093), W(0, \h00d3), W(0, \h0053),
      W(0, \h001f), W(0, \h009f) }

\* register_bitfields! PSR: the fields of the program state registers
PSR ==
    { [name |-> "MODE", offset |-> 0, numbits |-> 5],
      [name |-> "THUMB", offset |-> 5, numbits |-> 1],
      [name |-> "FIQ", offset |-> 6, numbits |-> 1],
      [name |-> "IRQ", offset |-> 7, numbits |-> 1],
      [name |-> "ABT", offset |-> 8, numbits |-> 1],
      [name |-> "ENDIAN", offset |-> 9, numbits |-> 1],
      [name |-> "JAZELLE", offset |-> 24, numbits |-> 1] }

\* PSR::F::V as a FieldValue: the mask of the field and the value at its offset
PSR_FieldValue(name, v) ==
    LET f == CHOOSE x \in PSR : x.name = name
    IN  [mask |-> FieldMask(f), value |-> FieldVal(f, v)]

\* MODE::SVC, MODE::SYS, FIQ::Masked / NotMasked, IRQ::Masked / NotMasked
PSR_FieldValues ==
    { PSR_FieldValue("MODE", \h0013), PSR_FieldValue("MODE", \h001f),
      PSR_FieldValue("FIQ", 1), PSR_FieldValue("FIQ", 0),
      PSR_FieldValue("IRQ", 1), PSR_FieldValue("IRQ", 0) }

\* CPSR.modify(mode): the bits of the field replaced, the others kept
set_current_mode(cpsr, mode) == WOr(WAnd(cpsr, WNot(mode.mask)), mode.value)

\* condition flags N Z C V (bits 31..28) the code in between leaves behind
FlagValues == { 0, \h6000 }

acquire(cpsr) ==
    [cpsr_old |-> cpsr, cpsr |-> WOr(cpsr, PSR_IRQ)]

release(cpsr, cpsr_old) ==
    IF WAnd(cpsr_old, PSR_IRQ) # W0 THEN WAnd(cpsr, WNot(PSR_IRQ)) ELSE cpsr

InitCs ==
    /\ attributes = MemoryAttributes_default
    /\ desc = NoCall
    /\ decoded = NoCall
    /\ xlat = NoCall
    /\ om = NoCall
    /\ dev = NoCall
    /\ cpu = NoCall
    /\ \E cpsr \in CpsrValues :
            cs = [op |-> "boot", cpsr |-> cpsr, tokens |-> << >>, token |-> W0,
                  before |-> cpsr, plain |-> TRUE]
    /\ arith = NoCall
    /\ pt = NoCall
    /\ va = NoCall
    /\ vt = NoCall

Acquire ==
    /\ Len(cs.tokens) < MaxNesting
    /\ LET out == acquire(cs.cpsr)
       IN  cs' = [op |-> "acquire", cpsr |-> out.cpsr,
                  tokens |-> Append(cs.tokens, out.cpsr_old),
                  token |-> out.cpsr_old, before |-> cs.cpsr,
                  plain |-> (cs.tokens = << >> \/ cs.plain)]
    /\ UNCHANGED <<attributes, desc, decoded, xlat, om, dev, cpu, arith, pt, va, vt>>

Release ==
    /\ cs.tokens # << >>
    /\ LET cpsr_old == cs.tokens[Len(cs.tokens)]
       IN  cs' = [op |-> "release", cpsr |-> release(cs.cpsr, cpsr_old),
                  tokens |-> SubSeq(cs.tokens, 1, Len(cs.tokens) - 1),
                  token |-> cpsr_old, before |-> cs.cpsr, plain |-> cs.plain]
    /\ UNCHANGED <<attributes, desc, decoded, xlat, om, dev, cpu, arith, pt, va, vt>>

\* code running in between sets the condition flags
SetFlags(flags) ==
    /\ cs' = [cs EXCEPT !.op = "flags", !.cpsr = W(flags + (@[1] % 4096), @[2]),
                        !.before = cs.cpsr]
    /\ UNCHANGED <<attributes, desc, decoded, xlat, om, dev, cpu, arith, pt, va, vt>>

\* set_current_mode(mode), called at any time, inside a section or outside
SetCurrentMode(mode) ==
    /\ cs' = [cs EXCEPT !.op = "set_current_mode",
                        !.cpsr = set_current_mode(@, mode),
                        !.before = cs.cpsr,
                        !.plain = (cs.tokens = << >>)]
    /\ UNCHANGED <<attributes, desc, decoded, xlat, om, dev, cpu, arith, pt, va, vt>>

\* CPSR.set(value): the whole register written
CpsrSet(value) ==
    /\ cs' = [cs EXCEPT !.op = "CPSR.set", !.cpsr = value, !.before = cs.cpsr,
                        !.plain = (cs.tokens = << >>)]
    /\ UNCHANGED <<attributes, desc, decoded, xlat, om, dev, cpu, arith, pt, va, vt>>

NextCs ==
    \/ Acquire
    \/ Release
    \/ \E flags \in FlagValues : SetFlags(flags)
    \/ \E mode \in PSR_FieldValues : SetCurrentMode(mode)
    \/ \E value \in CpsrValues : CpsrSet(value)

SpecCs == InitCs /\ [][NextCs]_vars

---------------------------------------------------------------------------
(* Address arithmetic (lib.rs): VirtualAddress and PhysicalAddress are     *)
(* transparent u32 wrappers, modelled by their word.                       *)

\* mutant: the subtraction wraps instead of giving None
checked_sub_wrapping(a, b) == Some(WSubWrap(a, b))

\* u32::checked_sub
checked_sub(a, b) == IF WLess(a, b) THEN None ELSE Some(WSubWrap(a, b))

\* Option::unwrap
unwrap(o) == IF o.tag = "None" THEN Panic ELSE Returned(o.val)

\* impl Sub<u32> for VirtualAddress
VirtualAddress_sub_u32(self, rhs) == unwrap(checked_sub(self, rhs))

\* impl Sub<VirtualAddress> for VirtualAddress
VirtualAddress_sub(self, rhs) == unwrap(checked_sub(self, rhs))

\* impl Sub<u32> for PhysicalAddress
PhysicalAddress_sub_u32(self, rhs) == unwrap(checked_sub(self, rhs))

\* impl Sub<PhysicalAddress> for PhysicalAddress
PhysicalAddress_sub(self, rhs) == unwrap(checked_sub(self, rhs))

\* impl Add<u32> for VirtualAddress
VirtualAddress_add(self, rhs, overflow_checks) ==
    u32_add(self, rhs, overflow_checks)

\* impl AddAssign<u32> for VirtualAddress: *self = *self + rhs
VirtualAddress_add_assign(self, rhs, overflow_checks) ==
    VirtualAddress_add(self, rhs, overflow_checks)

\* impl Add<u32> for PhysicalAddress
PhysicalAddress_add(self, rhs, overflow_checks) ==
    u32_add(self, rhs, overflow_checks)

\* impl AddAssign<u32> for PhysicalAddress: *self = *self + rhs
PhysicalAddress_add_assign(self, rhs, overflow_checks) ==
    PhysicalAddress_add(self, rhs, overflow_checks)

\* addresses and offsets at the edges of the 32-bit range and around them
ArithWords ==
    { W0, W(0, 1), W(0, \hffff), W(1, 0), W(\h0100, 0), W(\h7fff, \hffff),
      W(\h8000, 0), W(\h8000, 1), W(\h8020, \h1000), W(\hff00, 0),
      W(\hffff, \hffff) }

InitArith ==
    /\ attributes = MemoryAttributes_default
    /\ desc = NoCall
    /\ decoded = NoCall
    /\ xlat = NoCall
    /\ om = NoCall
    /\ dev = NoCall
    /\ cpu = NoCall
    /\ cs = NoCall
    /\ \E overflow_checks \in BOOLEAN :
            arith = [op |-> "start", a |-> W0, b |-> W0, res |-> Returned(W0),
                     overflow_checks |-> overflow_checks]
    /\ pt = NoCall
    /\ va = NoCall
    /\ vt = NoCall

\* an operator call; a panic ends the program
ArithCall(op, a, b, res) ==
    /\ arith.res.tag # "Panic"
    /\ arith' = [op |-> op, a |-> a, b |-> b, res |-> res,
                 overflow_checks |-> arith.overflow_checks]
    /\ UNCHANGED <<attributes, desc, decoded, xlat, om, dev, cpu, cs, pt, va, vt>>

VirtSubOffset(a, n) ==
    ArithCall("VirtualAddress - u32", a, n, VirtualAddress_sub_u32(a, n))

VirtSubVirt(a, b) ==
    ArithCall("VirtualAddress - VirtualAddress", a, b, VirtualAddress_sub(a, b))

PhysSubOffset(a, n) ==
    ArithCall("PhysicalAddress - u32", a, n, PhysicalAddress_sub_u32(a, n))

PhysSubPhys(a, b) ==
    ArithCall("PhysicalAddress - PhysicalAddress", a, b, PhysicalAddress_sub(a, b))

VirtAddOffset(a, n) ==
    ArithCall("VirtualAddress + u32", a, n,
              VirtualAddress_add(a, n, arith.overflow_checks))

VirtAddAssign(a, n) ==
    ArithCall("VirtualAddress += u32", a, n,
              VirtualAddress_add_assign(a, n, arith.overflow_checks))

PhysAddOffset(a, n) ==
    ArithCall("PhysicalAddress + u32", a, n,
              PhysicalAddress_add(a, n, arith.overflow_checks))

PhysAddAssign(a, n) ==
    ArithCall("PhysicalAddress += u32", a, n,
              PhysicalAddress_add_assign(a, n, arith.overflow_checks))

NextArith ==
    \/ \E a \in ArithWords, n \in ArithWords : VirtSubOffset(a, n)
    \/ \E a \in ArithWords, b \in ArithWords : VirtSubVirt(a, b)
    \/ \E a \in ArithWords, n \in ArithWords : PhysSubOffset(a, n)
    \/ \E a \in ArithWords, b \in ArithWords : PhysSubPhys(a, b)
    \/ \E a \in ArithWords, n \in ArithWords : VirtAddOffset(a, n)
    \/ \E a \in ArithWords, n \in ArithWords : VirtAddAssign(a, n)
    \/ \E a \in ArithWords, n \in ArithWords : PhysAddOffset(a, n)
    \/ \E a \in ArithWords, n \in ArithWords : PhysAddAssign(a, n)

SpecArith == InitArith /\ [][NextArith]_vars

---------------------------------------------------------------------------
(* PageTable::new: translates the page table's address, builds the Page    *)
(* descriptor and stores it in the translation table.                      *)

PageTable_new(pointer, mem_attributes, base_table, index, readback) ==
    LET phys_addr == get_phys_addr(pointer, readback)
    IN  IF phys_addr.tag = "Err"
        THEN [res |-> Returned(phys_addr), table |-> base_table]
        ELSE LET descriptor == TranslationTableDescriptor_new(
                                   "Page", phys_addr.val, mem_attributes)
             IN  IF descriptor.tag = "Err"
                 THEN [res |-> Returned(descriptor), table |-> base_table]
                 ELSE IF index >= TRANSLATION_TABLE_SIZE
                 THEN [res |-> Panic, table |-> base_table]
                 ELSE [res |-> Returned(Ok([pointer |-> pointer,
                                            descriptor |-> descriptor.val])),
                       table |-> [j \in DOMAIN base_table \cup {index} |->
                                     IF j = index THEN descriptor.val
                                     ELSE base_table[j]]]

\* page tables registered one after the other
MaxPageTables == 2

\* addresses of page table memory: 1KB aligned, and one that is not
PageTablePointers == { W(\h8000, \h0400), W(\h8000, \h0404) }

PageTableAttributes == { W0, W(0, \h01e1) }

\* first and last entry, and indices past the end of the table
PageTableIndices == { 0, TRANSLATION_TABLE_SIZE - 1, TRANSLATION_TABLE_SIZE }

\* what the translation result register reads: a frame, a frame with
\* memory attribute bits, and two faults (bit 0 set)
PageTableReadbacks ==
    { W(\h3f20, \h1000), W(\h8020, \h0180), W(0, \h000d), W(\h3f20, \h1001) }

\* the table before the first call: one section, the rest empty
PageTableInitial == (1 :> W(\h0010, \h0412))

InitPageTable ==
    /\ attributes = MemoryAttributes_default
    /\ desc = NoCall
    /\ decoded = NoCall
    /\ xlat = NoCall
    /\ om = NoCall
    /\ dev = NoCall
    /\ cpu = NoCall
    /\ cs = NoCall
    /\ arith = NoCall
    /\ pt = [op |-> "start", table |-> PageTableInitial,
             before |-> PageTableInitial, calls |-> 0, pointer |-> W0,
             mem_attributes |-> W0, index |-> 0, readback |-> W0,
             res |-> Returned(None)]
    /\ va = NoCall
    /\ vt = NoCall

PageTableNew(pointer, mem_attributes, index, readback) ==
    /\ pt.calls < MaxPageTables
    /\ pt.res.tag # "Panic"
    /\ LET out == PageTable_new(pointer, mem_attributes, pt.table, index,
                                readback)
       IN  pt' = [op |-> "PageTable::new", table |-> out.table,
                  before |-> pt.table, calls |-> pt.calls + 1,
                  pointer |-> pointer, mem_attributes |-> mem_attributes,
                  index |-> index, readback |-> readback, res |-> out.res]
    /\ UNCHANGED <<attributes, desc, decoded, xlat, om, dev, cpu, cs, arith,
                   va, vt>>

NextPageTable ==
    \E pointer \in PageTablePointers, a \in PageTableAttributes,
       index \in PageTableIndices, readback \in PageTableReadbacks :
        PageTableNew(pointer, a, index, readback)

SpecPageTable == InitPageTable /\ [][NextPageTable]_vars

---------------------------------------------------------------------------
(* VirtualAddress::from_indices and the index accessors (lib.rs)           *)

PAGE_TABLE_SIZE == 256

\* indices are usize: integers; the offset is a u32 word
from_indices(translation_index, page_index, offset) ==
    IF \/ translation_index >= TRANSLATION_TABLE_SIZE
       \/ page_index >= PAGE_TABLE_SIZE
       \/ WLeq(W(0, \h0fff), offset)
    THEN None
    ELSE Some(WOr(WOr(WShl(W(0, translation_index), 20),
                      WShl(W(0, page_index), 12)),
                  offset))

page_table_index(a) == WShr(WAnd(a, W(\h000f, \hffff)), 12)[2]

page_table_offset(a) == WOr(a, W(0, \h0fff))

VaTranslationIndices == { 0, 1, \h900, 4095, 4096 }

VaPageIndices == { 0, 1, 255, 256 }

VaOffsets ==
    { W0, W(0, 1), W(0, \h0abc), W(0, \h0ffe), W(0, \h0fff), W(0, \h1000),
      W(\hffff, \hffff) }

InitVa ==
    /\ attributes = MemoryAttributes_default
    /\ desc = NoCall
    /\ decoded = NoCall
    /\ xlat = NoCall
    /\ om = NoCall
    /\ dev = NoCall
    /\ cpu = NoCall
    /\ cs = NoCall
    /\ arith = NoCall
    /\ pt = NoCall
    /\ va = NoCall
    /\ vt = NoCall

FromIndices(translation_index, page_index, offset) ==
    /\ va.op = "none"
    /\ va' = [op |-> "from_indices", translation_index |-> translation_index,
              page_index |-> page_index, offset |-> offset,
              res |-> from_indices(translation_index, page_index, offset),
              out |-> NoCall]
    /\ UNCHANGED <<attributes, desc, decoded, xlat, om, dev, cpu, cs, arith,
                   pt, vt>>

\* an accessor applied to the address from_indices returned
VaAccessor(op, out) ==
    /\ va.op # "none"
    /\ va.res.tag = "Some"
    /\ va' = [va EXCEPT !.op = op, !.out = out]
    /\ UNCHANGED <<attributes, desc, decoded, xlat, om, dev, cpu, cs, arith,
                   pt, vt>>

BaseTableIndex == VaAccessor("base_table_index", base_table_index(va.res.val))

PageTableIndex == VaAccessor("page_table_index", page_table_index(va.res.val))

PageTableOffset == VaAccessor("page_table_offset", page_table_offset(va.res.val))

NextVa ==
    \/ \E t \in VaTranslationIndices, p \in VaPageIndices, o \in VaOffsets :
            FromIndices(t, p, o)
    \/ BaseTableIndex
    \/ PageTableIndex
    \/ PageTableOffset

SpecVa == InitVa /\ [][NextVa]_vars

---------------------------------------------------------------------------
(* Vector table (interrupts.rs): the memory behind RegisterBlock, a        *)
(* function from field names to words.                                     *)

\* u32::swap_bytes
swap_bytes(w) ==
    W((w[2] % 256) * 256 + w[2] \div 256, (w[1] % 256) * 256 + w[1] \div 256)

ASM_PC_24 == swap_bytes(W(\h18f0, \h9fe5))

InstructionSlots ==
    { "reset_handler", "undef_handler", "swi_handler", "prefetch_handler",
      "data_handler", "hyp_handler", "irq_handler", "fiq_handler" }

AddressSlots ==
    { "reset_addr", "undef_addr", "swi_addr", "prefetch_addr", "data_addr",
      "hyp_addr", "irq_addr", "fiq_addr" }

\* mutant: the hyp setter writes the irq address
HandlerSlot_hyp_on_irq ==
    [ set_undef_handler |-> "undef_addr",
      set_swi_handler |-> "swi_addr",
      set_prefetch_abort_handler |-> "prefetch_addr",
      set_data_abort_handler |-> "data_addr",
      set_hyp_handler |-> "irq_addr",
      set_irq_handler |-> "irq_addr",
      set_fiq_handler |-> "fiq_addr" ]

\* the field each setter writes
HandlerSlot ==
    [ set_undef_handler |-> "undef_addr",
      set_swi_handler |-> "swi_addr",
      set_prefetch_abort_handler |-> "prefetch_addr",
      set_data_abort_handler |-> "data_addr",
      set_hyp_handler |-> "hyp_addr",
      set_irq_handler |-> "irq_addr",
      set_fiq_handler |-> "fiq_addr" ]

VectorTable_init(vectors, initial_address) ==
    [slot \in DOMAIN vectors |->
        IF slot \in InstructionSlots THEN ASM_PC_24 ELSE initial_address]

\* set_undef_handler .. set_fiq_handler: self.vectors.<field>.set(handler)
VectorTable_set_handler(vectors, setter, handler) ==
    [vectors EXCEPT ![HandlerSlot[setter]] = handler]

\* handler addresses
VtAddrs == { W(\h8000, 0), W(\h8000, \h1000), W(\hffff, \h0020) }

\* the memory at the vector base before init: anything
VtMemories ==
    { [slot \in InstructionSlots \cup AddressSlots |-> w] :
        w \in { W0, W(\hdead, \hbeef) } }

InitVt ==
    /\ attributes = MemoryAttributes_default
    /\ desc = NoCall
    /\ decoded = NoCall
    /\ xlat = NoCall
    /\ om = NoCall
    /\ dev = NoCall
    /\ cpu = NoCall
    /\ cs = NoCall
    /\ arith = NoCall
    /\ pt = NoCall
    /\ va = NoCall
    /\ \E vectors \in VtMemories :
            vt = [op |-> "new", vectors |-> vectors, inited |-> FALSE,
                  initial_address |-> W0,
                  last |-> [setter \in DOMAIN HandlerSlot |-> W0]]

VtInit(initial_address) ==
    /\ vt' = [op |-> "init",
              vectors |-> VectorTable_init(vt.vectors, initial_address),
              inited |-> TRUE,
              initial_address |-> initial_address,
              last |-> [setter \in DOMAIN vt.last |-> initial_address]]
    /\ UNCHANGED <<attributes, desc, decoded, xlat, om, dev, cpu, cs, arith,
                   pt, va>>

SetHandler(setter, handler) ==
    /\ vt' = [vt EXCEPT !.op = setter,
                        !.vectors = VectorTable_set_handler(@, setter, handler),
                        !.last = [@ EXCEPT ![setter] = handler]]
    /\ UNCHANGED <<attributes, desc, decoded, xlat, om, dev, cpu, cs, arith,
                   pt, va>>

NextVt ==
    \/ \E a \in VtAddrs : VtInit(a)
    \/ \E setter \in DOMAIN HandlerSlot, h \in VtAddrs : SetHandler(setter, h)

SpecVt == InitVt /\ [][NextVt]_vars

---------------------------------------------------------------------------
(* Properties                                                              *)

IsTableNew == desc.op = "TranslationTableDescriptor::new"

IsPageNew == desc.op = "PageTableDescriptor::new"

\* the alignment masks as the documentation states them
StatedMask(type) ==
    CASE type = "Page" -> W(0, \h03ff)
      [] type = "Section" -> W(\h000f, \hffff)
      [] type = "Supersection" -> W(\h000f, \hffff)
      [] type = "SmallPage" -> W(0, \h0fff)
      [] type = "LargePage" -> W(0, \hffff)
      [] OTHER -> W0

AlignedFor(type, addr) == WAnd(addr, StatedMask(type)) = W0

\* attrs has no bit outside the fields named
UsesOnly(attrs, names) == WAnd(attrs, WNot(FieldsMask(names))) = W0

AllFields == {f.name : f \in ATTRIBUTES}

\* C1: a first-level descriptor built for type T (Page, Section or
\* Supersection) at an aligned address, from any attributes the public API
\* can produce, is Ok and decodes as type T.
C1_TableTypePreserved ==
    (IsTableNew /\ desc.type # "Invalid" /\ AlignedFor(desc.type, desc.addr))
        => /\ desc.res.tag = "Ok"
           /\ TranslationTableDescriptor_get_type(desc.res.val) = desc.type

\* C2: a second-level descriptor built for SmallPage or LargePage at an
\* aligned address, from any 32-bit attributes word, is Ok, has the type it
\* was built for and gives back the address it was built with.
C2_PageTypeAndAddrPreserved ==
    (IsPageNew /\ desc.type # "Invalid" /\ AlignedFor(desc.type, desc.addr))
        => /\ desc.res.tag = "Ok"
           /\ PageTableDescriptor_get_type(desc.res.val) = desc.type
           /\ PageTableDescriptor_get_addr(desc.res.val) = Ok(desc.addr)

\* C2 witness: a small page built with XN set, whose XN landed on bit 0 of
\* the descriptor, next to the type tag.
C2_Witness ==
    /\ IsPageNew
    /\ desc.type = "SmallPage"
    /\ AlignedFor(desc.type, desc.addr)
    /\ WAnd(desc.attrs, W(0, \h0010)) # W0
    /\ desc.res.tag = "Ok"
    /\ WAnd(desc.res.val, W(0, 1)) # W0

\* C3: construction at either level returns Err(AlignError), and no
\* descriptor, exactly when the type is not Invalid and the address has a bit
\* inside the type's alignment mask; otherwise it returns Ok.
C3_AlignErrorExactly ==
    (IsTableNew \/ IsPageNew)
        => LET misaligned == desc.type # "Invalid"
                                /\ ~AlignedFor(desc.type, desc.addr)
           IN  /\ misaligned => desc.res = Err("AlignError")
               /\ misaligned => "val" \notin DOMAIN desc.res
               /\ ~misaligned => desc.res.tag = "Ok"

\* C3 witness: Section at 0x8020_0001 fails with AlignError.
C3_Witness ==
    /\ IsTableNew
    /\ desc.type = "Section"
    /\ desc.addr = W(\h8020, 1)
    /\ desc.res = Err("AlignError")

\* C4: decoding a Section or Page descriptor built from attributes that use
\* only the fields the type can carry gives back Some(those attributes).
C4_TableRoundTrip ==
    (/\ decoded.op = "from_table_descriptor"
     /\ IsTableNew
     /\ \/ /\ desc.type = "Section"
           /\ UsesOnly(desc.attrs, AllFields)
        \/ /\ desc.type = "Page"
           /\ UsesOnly(desc.attrs, {"PXN", "DOMAIN", "NS"}))
        => decoded.res = Some(desc.attrs)

\* C5: decoding a Supersection descriptor built from attributes of the
\* defined fields gives back Some(the attributes with DOMAIN cleared).
C5_SupersectionRoundTrip ==
    (/\ decoded.op = "from_table_descriptor"
     /\ IsTableNew
     /\ desc.type = "Supersection"
     /\ UsesOnly(desc.attrs, AllFields))
        => decoded.res = Some(WAnd(desc.attrs, WNot(W(0, \h01e0))))

\* C6: decoding a large page built from attributes that use only B, C, XN,
\* AP, TEX, AP2, S and NG gives back those attributes.
C6_LargePageRoundTrip ==
    (/\ decoded.op = "from_page_descriptor"
     /\ IsPageNew
     /\ desc.type = "LargePage"
     /\ UsesOnly(desc.attrs, {"B", "C", "XN", "AP", "TEX", "AP2", "S", "NG"}))
        => decoded.res = desc.attrs

\* C7: decoding a small page built from attributes that use only B, C, XN,
\* AP, TEX, AP2, S and NG gives back those attributes.
C7_SmallPageRoundTrip ==
    (/\ decoded.op = "from_page_descriptor"
     /\ IsPageNew
     /\ desc.type = "SmallPage"
     /\ UsesOnly(desc.attrs, {"B", "C", "XN", "AP", "TEX", "AP2", "S", "NG"}))
        => decoded.res = desc.attrs

\* C7 witness: a small page built with XN and NG set has been decoded.
C7_Witness ==
    /\ decoded.op = "from_page_descriptor"
    /\ IsPageNew
    /\ desc.type = "SmallPage"
    /\ desc.attrs = W(\h0002, \h0010)
    /\ decoded.res = W(\h0002, \h0010)

\* C8: every attributes value the caller can hold or decode has zero in
\* every bit outside the defined fields (bits 1, 9, 18 and 20-31 are zero).
C8_OnlyDefinedBits ==
    /\ UsesOnly(attributes, AllFields)
    /\ (decoded.op = "from_table_descriptor" /\ decoded.res.tag = "Some")
            => UsesOnly(decoded.res.val, AllFields)
    /\ decoded.op = "from_page_descriptor" => UsesOnly(decoded.res, AllFields)

\* C9: building type Invalid returns Ok(0) whatever the address and the
\* attributes; the zero word has type Invalid, PageTableDescriptor::get_addr
\* fails on it with InvalidMemory and from_table_descriptor gives None.
C9_InvalidIsZero ==
    /\ (IsTableNew /\ desc.type = "Invalid")
            => /\ desc.res = Ok(W0)
               /\ TranslationTableDescriptor_get_type(desc.res.val) = "Invalid"
               /\ from_table_descriptor(desc.res.val) = None
               /\ decoded.op = "from_table_descriptor" => decoded.res = None
    /\ (IsPageNew /\ desc.type = "Invalid")
            => /\ desc.res = Ok(W0)
               /\ PageTableDescriptor_get_type(desc.res.val) = "Invalid"
               /\ PageTableDescriptor_get_addr(desc.res.val) = Err("InvalidMemory")

\* C9 witness: Invalid built at a misaligned address from non-zero
\* attributes, and decoded.
C9_Witness ==
    /\ IsTableNew
    /\ desc.type = "Invalid"
    /\ desc.addr = W(\h8020, 1)
    /\ desc.attrs # W0
    /\ decoded.op = "from_table_descriptor"
    /\ decoded.res = None

\* C10: get_phys_addr returns Err(TranslationError) whenever the value read
\* back has bit 0 set, and Ok((readback & !0xfff) | (v & 0xfff)) only when
\* that bit is clear.
C10_FaultIsReported ==
    xlat.op = "get_phys_addr"
        => IF WAnd(xlat.readback, W(0, 1)) # W0
           THEN xlat.res = Err("TranslationError")
           ELSE xlat.res = Ok(WOr(WAnd(xlat.readback, WNot(W(0, \h0fff))),
                                  WAnd(xlat.virt, W(0, \h0fff))))

\* start <= a <= start + size, the sum taken in the integers
InWindow(start, size, a) == WLeq(start, a) /\ WLeq(WSubWrap(a, start), size)

\* start + size is below 2^32
Fits(start, size) == ~WAddOverflows(start, size)

\* C11: when virt_addr_in_range(v) holds, convert_virt_addr(v) returns Ok(p)
\* with p inside the physical window, and convert_phys_addr(p) returns Ok(v).
C11_OffsetRoundTrip ==
    /\ (/\ om.op = "convert_virt_addr"
        /\ virt_addr_in_range(om.m, om.arg, om.overflow_checks) = Returned(TRUE))
            => /\ om.res.tag = "Return"
               /\ om.res.val.tag = "Ok"
               /\ phys_addr_in_range(om.m, om.res.val.val, om.overflow_checks)
                    = Returned(TRUE)
    /\ (om.op = "convert_phys_addr" /\ om.from.tag = "Some")
            => om.res = Returned(Ok(om.from.val))

\* C12: the range tests answer start <= a <= start + size (upper edge
\* included); the conversions return Err(NotInRange) exactly outside the
\* window and Ok(other start + (a - start)) inside it.
C12_WindowAndConversion ==
    /\ om.op = "virt_addr_in_range"
            => om.res = Returned(InWindow(om.m.virt_start, om.m.size, om.arg))
    /\ om.op = "phys_addr_in_range"
            => om.res = Returned(InWindow(om.m.phys_start, om.m.size, om.arg))
    /\ om.op = "convert_virt_addr"
            => IF InWindow(om.m.virt_start, om.m.size, om.arg)
               THEN LET diff == WSubWrap(om.arg, om.m.virt_start)
                    IN  /\ ~WAddOverflows(om.m.phys_start, diff)
                        /\ om.res = Returned(Ok(WAddWrap(om.m.phys_start, diff)))
               ELSE om.res = Returned(Err("NotInRange"))
    /\ om.op = "convert_phys_addr"
            => IF InWindow(om.m.phys_start, om.m.size, om.arg)
               THEN LET diff == WSubWrap(om.arg, om.m.phys_start)
                    IN  /\ ~WAddOverflows(om.m.virt_start, diff)
                        /\ om.res = Returned(Ok(WAddWrap(om.m.virt_start, diff)))
               ELSE om.res = Returned(Err("NotInRange"))

\* C13: every mapping OffsetMapping::new gives has size > 0 and both windows
\* end below 2^32, so no sum of the range tests or conversions overflows.
C13_MappingFits ==
    om.op # "none"
        => /\ om.m.size # W0
           /\ Fits(om.m.virt_start, om.m.size)
           /\ Fits(om.m.phys_start, om.m.size)
           /\ IF om.op = "new" THEN TRUE ELSE om.res.tag # "Panic"

\* the top byte of p occurs in the list
InList(list, p) == \E i \in 1..Len(list) : list[i] = p[1] \div 256

\* 0-based position of the first occurrence of the top byte of p
FirstSlot(list, p) ==
    (CHOOSE i \in 1..Len(list) :
        list[i] = p[1] \div 256 /\ \A j \in 1..(i - 1) : list[j] # p[1] \div 256) - 1

\* base + n * 16MB <= 2^32
RegionFits(base, n) == base[1] + 256 * n <= 65536

\* C14: for a frame in the list, lookup(p) is Some(v) and, after do_mapping,
\* table[v >> 20] is a Section whose base | (v & 0xf_ffff) is p, at every
\* offset in the frame (last megabyte included); otherwise lookup is None.
C14_LookupAgreesWithMapping ==
    (dev.op = "lookup" /\ dev.mapped)
        => IF InList(dev.list, dev.arg)
           THEN /\ dev.res.tag = "Return"
                /\ dev.res.val.tag = "Some"
                /\ LET v == dev.res.val.val
                       entry == table_entry(dev.table, WShr(v, 20)[2])
                   IN  /\ TranslationTableDescriptor_get_type(entry) = "Section"
                       /\ WOr(WAnd(entry, W(\hfff0, 0)),
                              WAnd(v, W(\h000f, \hffff))) = dev.arg
           ELSE dev.res = Returned(None)

\* C15: lookup(p) is None when the top byte of p is not in the list, and
\* otherwise Some(base + i * 16MB + (p & 0x00ff_ffff)), i the position of
\* the first occurrence of that byte.
C15_LookupValue ==
    dev.op = "lookup"
        => IF InList(dev.list, dev.arg)
           THEN LET hi == dev.base[1] + 256 * FirstSlot(dev.list, dev.arg)
                            + (dev.arg[1] % 256)
                IN  /\ hi < 65536
                    /\ dev.res = Returned(Some(W(hi, dev.arg[2])))
           ELSE dev.res = Returned(None)

\* the writes C16 states: slot by slot, 15 per slot
ExpectedWrites(base, list) ==
    [q \in 1..(15 * Len(list)) |->
        LET i == (q - 1) \div 15
            k == (q - 1) % 15
        IN  << (base[1] \div 16) + 16 * i + k,
               W(list[i + 1] * 256 + k * 16, \h0412) >>]

\* C16: do_mapping writes, for the i-th frame f, exactly the entries
\* (base >> 20) + 16*i + k, k = 0..14, with the word
\* ((f << 24) + (k << 20)) | 0x412, slot by slot in list order.
C16_MappingWrites ==
    dev.op = "do_mapping" => dev.log = ExpectedWrites(dev.base, dev.list)

\* C17: new gives Err(AlignError) exactly when a low 24 bit of base is set
\* and otherwise Ok of a mapper with exactly that base and list.
C17_NewChecksAlignment ==
    dev.op = "new"
        => IF dev.base[2] # 0 \/ dev.base[1] % 256 # 0
           THEN dev.res = Err("AlignError")
           ELSE dev.res = Ok([base_address |-> dev.base,
                              device_base_addresses |-> dev.list])

\* new has refused a base that is a multiple of 1MB but not of 16MB
C17_Witness ==
    /\ dev.op = "new"
    /\ dev.base = W(\h9010, 0)
    /\ dev.res = Err("AlignError")

\* C18: set_as_ttbr0 translates, writes the translated address to TTBR0,
\* executes exactly three no-ops and returns Ok(()), in this order; no no-op
\* comes before the write and the write is never the step before the return.
C18_Ttbr0StepOrder ==
    /\ cpu.res = Ok("unit")
        => /\ cpu.trace = << "get_phys_addr", "TTBR0.set",
                             "nop", "nop", "nop", "return" >>
           /\ cpu.phys_addr.tag = "Ok"
           /\ cpu.ttbr0 = cpu.phys_addr.val
    /\ \A i \in 1..Len(cpu.trace) :
        /\ cpu.trace[i] = "nop"
            => \E j \in 1..(i - 1) : cpu.trace[j] = "TTBR0.set"
        /\ cpu.trace[i] = "TTBR0.set"
            => /\ i > 1
               /\ cpu.trace[i - 1] = "get_phys_addr"
        /\ (cpu.trace[i] = "return" /\ i > 1)
            => cpu.trace[i - 1] # "TTBR0.set"

\* a call has returned Ok(()) after writing a translated frame to TTBR0
C18_Witness ==
    /\ cpu.op = "set_as_ttbr0"
    /\ cpu.res = Ok("unit")
    /\ cpu.pointer = W(\h8000, \h4000)
    /\ cpu.ttbr0 = W(\h3f20, \h1000)

IrqMasked(cpsr) == cpsr[2] % 256 >= 128

\* C19: IRQs are masked once acquire has run, and after release(token) of
\* a section entered with IRQ delivery enabled (token I bit clear) IRQ
\* delivery is enabled again.
C19_ReleaseRestoresIrq ==
    /\ cs.op = "acquire" => IrqMasked(cs.cpsr)
    /\ (cs.op = "release" /\ ~IrqMasked(cs.token)) => ~IrqMasked(cs.cpsr)

SubOps ==
    { "VirtualAddress - u32", "VirtualAddress - VirtualAddress",
      "PhysicalAddress - u32", "PhysicalAddress - PhysicalAddress" }

\* C20: a - b, for two addresses or an address and an offset, gives the
\* difference d (d + b = a without carry) when b <= a and panics when b > a;
\* a wrapped value is never returned.
C20_SubTrapsOnUnderflow ==
    arith.op \in SubOps
        => IF arith.b[1] < arith.a[1]
              \/ (arith.b[1] = arith.a[1] /\ arith.b[2] <= arith.a[2])
           THEN /\ arith.res.tag = "Return"
                /\ ~WAddOverflows(arith.res.val, arith.b)
                /\ WAddWrap(arith.res.val, arith.b) = arith.a
           ELSE arith.res = Panic

\* an address one above the minuend has been subtracted, and the call
\* panicked
C20_Witness ==
    /\ arith.op = "VirtualAddress - VirtualAddress"
    /\ arith.a = W(\h8000, 0)
    /\ arith.b = W(\h8000, 1)
    /\ arith.res = Panic

AddOps ==
    { "VirtualAddress + u32", "VirtualAddress += u32",
      "PhysicalAddress + u32", "PhysicalAddress += u32" }

\* C21: a + n and a += n give the address a + n when the sum is below 2^32
\* and never give the wrapped sum when it is not, whatever the build.
C21_AddNeverWraps ==
    arith.op \in AddOps
        => LET hi == arith.a[1] + arith.b[1] + (arith.a[2] + arith.b[2]) \div 65536
               lo == (arith.a[2] + arith.b[2]) % 65536
           IN  IF hi < 65536
               THEN arith.res = Returned(W(hi, lo))
               ELSE arith.res # Returned(W(hi % 65536, lo))

\* C22: no operation panics: do_mapping and lookup of a mapper accepted by
\* new always complete with a value.
C22_NoPanic ==
    dev.op # "none" => dev.res.tag # "Panic"

\* the translation of the call's pointer succeeded (fault bit of the result
\* register clear), and the address it gives
TranslationOk(readback) == readback[2] % 2 = 0

TranslatedAddr(pointer, readback) ==
    W(readback[1], (readback[2] \div 4096) * 4096 + (pointer[2] % 4096))

SameExceptAt(table, before, index) ==
    /\ DOMAIN table \subseteq DOMAIN before \cup {index}
    /\ \A j \in DOMAIN before \ {index} : j \in DOMAIN table /\ table[j] = before[j]

\* C23: PageTable::new with index < 4096 stores at base_table[index] the Page
\* descriptor of the translated address and of attrs, returns a PageTable
\* holding it and changes no other entry; when the translation fails or the
\* address is not 1KB-aligned it returns the error and changes no entry.
C23_PageTableNewFrame ==
    (pt.op = "PageTable::new" /\ pt.index < 4096)
        => LET phys == TranslatedAddr(pt.pointer, pt.readback)
           IN  IF ~TranslationOk(pt.readback)
               THEN /\ pt.res = Returned(Err("TranslationError"))
                    /\ pt.table = pt.before
               ELSE IF phys[2] % 1024 # 0
               THEN /\ pt.res = Returned(Err("AlignError"))
                    /\ pt.table = pt.before
               ELSE /\ pt.res.tag = "Return"
                    /\ pt.res.val.tag = "Ok"
                    /\ pt.res.val.val.descriptor = pt.table[pt.index]
                    /\ TranslationTableDescriptor_get_type(pt.table[pt.index]) = "Page"
                    /\ WAnd(pt.table[pt.index], W(\hffff, \hfc00)) = phys
                    /\ WAnd(pt.table[pt.index], W(0, \h03ff))
                        = to_table_descriptor(pt.mem_attributes, "Page")
                    /\ SameExceptAt(pt.table, pt.before, pt.index)

\* C24: do_mapping changes no entry outside the region
\* [(base >> 20), (base >> 20) + 16 * n) and not the 16th entry of a slot.
C24_MappingFrame ==
    dev.op = "do_mapping"
        => LET first == dev.base[1] \div 16
           IN  \A j \in DOMAIN dev.table \cup DOMAIN dev.before :
                   (\/ j < first
                    \/ j >= first + 16 * Len(dev.list)
                    \/ (j - first) % 16 = 15)
                       => table_entry(dev.table, j) = table_entry(dev.before, j)

\* C25: a second do_mapping in a row leaves the table as the first one left
\* it and returns what the first one returned.
C25_MappingIdempotent ==
    (dev.op = "do_mapping" /\ dev.calls = 2)
        => /\ dev.table = dev.before
           /\ dev.res = dev.prev_res

\* do_mapping has run twice on a table that was empty, for two frames
C25_Witness ==
    /\ dev.op = "do_mapping"
    /\ dev.calls = 2
    /\ dev.base = W(\h9000, 0)
    /\ dev.list = << \h3f, \h40 >>
    /\ dev.res = Returned(Ok("unit"))
    /\ DOMAIN dev.table = \h900..\h90e \cup \h910..\h91e

\* C26: when base + n * 16MB <= 2^32, do_mapping returns Ok(()) and writes
\* no entry below base >> 20.
C26_MappingStaysInRegion ==
    (dev.op = "do_mapping" /\ RegionFits(dev.base, Len(dev.list)))
        => /\ dev.res = Returned(Ok("unit"))
           /\ \A q \in 1..Len(dev.log) : dev.log[q][1] >= dev.base[1] \div 16

\* C27: release(token) of a section entered with IRQs masked (token I bit
\* set) does not enable IRQs (masked before the call, masked after it), so
\* in a sequence of acquire and release calls alone IRQs are masked in every
\* state in which a section is held, nested sections included.
C27_MaskedStaysMasked ==
    /\ (cs.op = "release" /\ IrqMasked(cs.token) /\ IrqMasked(cs.before))
            => IrqMasked(cs.cpsr)
    /\ (cs.op \in {"acquire", "release"} /\ cs.tokens # << >> /\ cs.plain)
            => IrqMasked(cs.cpsr)

\* C28: from_indices(t, p, o) is Some(a) exactly when t < 4096, p < 256 and
\* o <= 0xfff; then a = (t << 20) | (p << 12) | o, a.base_table_index() = t
\* and a.page_table_index() = p.
C28_FromIndices ==
    /\ va.op = "from_indices"
        => IF /\ va.translation_index < 4096
              /\ va.page_index < 256
              /\ va.offset[1] = 0
              /\ va.offset[2] <= 4095
           THEN va.res = Some(W(va.translation_index * 16 + va.page_index \div 16,
                                (va.page_index % 16) * 4096 + va.offset[2]))
           ELSE va.res = None
    /\ va.op = "base_table_index" => va.out = va.translation_index
    /\ va.op = "page_table_index" => va.out = va.page_index

\* C29: a.page_table_offset() is a & 0xfff: below 0x1000, and the offset o
\* for an address made by from_indices(t, p, o).
C29_PageTableOffset ==
    va.op = "page_table_offset"
        => /\ va.out = W(0, va.res.val[2] % 4096)
           /\ va.out = va.offset

\* C30: after init(a) and any setters, every instruction slot holds the
\* load-PC trampoline word, the reset address slot holds a, and every other
\* address slot holds the argument of the last setter for its exception
\* (a if there was none).
C30_VectorTableWrites ==
    vt.inited
        => /\ \A slot \in { "reset_handler", "undef_handler", "swi_handler",
                            "prefetch_handler", "data_handler", "hyp_handler",
                            "irq_handler", "fiq_handler" } :
                  vt.vectors[slot] = W(\he59f, \hf018)
           /\ vt.vectors.reset_addr = vt.initial_address
           /\ vt.vectors.undef_addr = vt.last.set_undef_handler
           /\ vt.vectors.swi_addr = vt.last.set_swi_handler
           /\ vt.vectors.prefetch_addr = vt.last.set_prefetch_abort_handler
           /\ vt.vectors.data_addr = vt.last.set_data_abort_handler
           /\ vt.vectors.hyp_addr = vt.last.set_hyp_handler
           /\ vt.vectors.irq_addr = vt.last.set_irq_handler
           /\ vt.vectors.fiq_addr = vt.last.set_fiq_handler

\* after init, the hyp and irq handlers have been set to different
\* addresses, both different from the initial one
C30_Witness ==
    /\ vt.inited
    /\ vt.op = "set_hyp_handler"
    /\ vt.initial_address = W(\h8000, 0)
    /\ vt.vectors.hyp_addr = W(\hffff, \h0020)
    /\ vt.vectors.irq_addr = W(\h8000, \h1000)
    /\ vt.vectors.reset_addr = W(\h8000, 0)

====
